---- MODULE Spec2Model ----
(***************************************************************************)
(* Blink detector of the WaW desktop client (desktop/eye_tracker.py):      *)
(* class EyeTracker, its per-frame state machine _process_frame, and the   *)
(* session operations start_tracking, stop_tracking, get_current_stats and *)
(* reset_session.                                                          *)
(*                                                                         *)
(* Units.  An eye aspect ratio (EAR) is an integer number of hundredths    *)
(* (0.21 is 21).  The mean of the smoothing window is never formed: a      *)
(* comparison  mean(h) < c  is evaluated as  sum(h) < c * len(h), which is *)
(* the same comparison in exact arithmetic.  Wall-clock time (utcnow) is   *)
(* an integer number of ticks of 0.35 s, so the default refractory period  *)
(* of 0.35 s is 1 tick; frames processed within the same tick are less     *)
(* than a refractory period apart.                                         *)
(***************************************************************************)
EXTENDS Integers, Sequences, FiniteSets

\* ------------------------------------------------------------------ bounds

\* Frames (with or without a face) handed to _process_frame in one behaviour.
MaxFrames == 5
\* Of these, frames on which the face mesh finds no face.
MaxNoFace == 1
\* Last tick of the wall clock.
MaxTime == 2
\* Largest smooth_window the constructor is called with.
MaxWindow == 3
\* Tracking-loop threads that outlive a stop_tracking whose join timed out.
MaxOrphans == 1
\* Frames whose eye landmarks are degenerate (a corner distance of 0).
MaxDegenerate == 2

\* ------------------------------------------------- constants of the program

\* Python's None, for the optional timestamps; also the "no face" result of the
\* face mesh (results.multi_face_landmarks is None).
None == -1
NoFace == None

\* The two non-finite values float64 division produces: x / 0.0 is inf for
\* x > 0 and nan for x = 0 (numpy warns and does not raise).  A finite EAR is a
\* natural number of hundredths, so both are kept below zero.
NaN == -2
Inf == -3

\* Defaults of EyeTracker.__init__.
DefaultEarThreshold == 21
DefaultHysteresisDelta == 3
DefaultMinBlinkInterval == 1
DefaultConsecutiveFrames == 2
DefaultOpenFramesRequired == 2
DefaultSmoothWindow == 3

\* Raw EAR values of the frames fed to the detector: a closed eye (0.10), an
\* open eye (0.35), an open eye just above the open threshold (0.25), and an
\* outlier far below the close threshold (0).
TestEars == [closed |-> 10, open |-> 35, barely_open |-> 25, outlier |-> 0]
ClosedEar == TestEars.closed
OpenEar == TestEars.open
BarelyOpenEar == TestEars.barely_open
OutlierEar == TestEars.outlier

\* Eye outlines of the frames given by their landmarks, in pixels: the width
\* |p1 - p4| of a regular eye, and the half heights of a closed and an open one
\* (EAR 0.10 and 0.35 at that width); `slant` scales the 3-4-5 offset between
\* the upper and the lower lid points of a slanted eye (EAR 0.25).
TestEyes == [width |-> 200, closed |-> 10, open |-> 35, slant |-> 10]

VARIABLES
    \* configuration, set by __init__
    ear_threshold, hysteresis_delta, open_threshold, consecutive_frames,
    open_frames_required, min_blink_interval_s, smooth_window,
    \* tracking state
    blink_count, frame_counter, is_running,
    _ear_history, eye_closed, closed_frames, open_frames,
    session_start, last_blink_time,
    \* self.thread: "none" before the first start, "dead" once its loop has
    \* ended, "alive" while it runs, "held" while it is alive inside an
    \* iteration it began before is_running was cleared, its frame not yet
    \* processed; and the number of live tracking-loop threads that self.thread
    \* no longer refers to
    thread, orphans,
    \* the wall clock read by datetime.utcnow()
    now,
    \* observers: the last operation and what it returned, the frames processed since
    \* construction, whether reset_session was ever called, and the detector
    \* that saw the valid frames only, and the eye landmarks of the last frame
    \* (<<>> when the frame is given by its EAR alone)
    ret, frames, reset_seen, ref, landmarks,
    \* the application's stop flow (WaWMainWindow.stop_tracking): the blink count
    \* it read for the session summary, while it is between that reading and its
    \* call of stop_tracking() (None outside the flow), and the number of frames
    \* that had been processed when the flow last ended (0 before)
    total_blinks, stopped_at

config == <<ear_threshold, hysteresis_delta, open_threshold, consecutive_frames,
            open_frames_required, min_blink_interval_s, smooth_window>>
detector == <<blink_count, _ear_history, eye_closed, closed_frames, open_frames,
              last_blink_time>>
threads == <<thread, orphans>>
observers == <<ret, frames, reset_seen, ref, landmarks>>
application == <<total_blinks, stopped_at>>
vars == <<config, detector, frame_counter, is_running, session_start, threads, now,
          observers, application>>

\* ------------------------------------------------------------ pure helpers

\* Faulty variant: the open threshold is the close threshold (no hysteresis).
OpenThresholdNoHysteresis(et, hd) == et

\* self.open_threshold = ear_threshold + hysteresis_delta
OpenThreshold(et, hd) == et + hd

RECURSIVE EarSum(_)
EarSum(h) == IF h = <<>> THEN 0 ELSE Head(h) + EarSum(Tail(h))

\* Faulty variant: a list that is never trimmed to smooth_window samples.
DequeAppendUnbounded(h, x) == h \o <<x>>

\* Faulty variant: a full window turns the new sample away.
DequeAppendDropsNewest(h, x) ==
    IF Len(h) >= smooth_window THEN h ELSE h \o <<x>>

\* deque(maxlen=smooth_window).append(x): the oldest sample falls out when full.
DequeAppend(h, x) ==
    IF Len(h) >= smooth_window THEN Tail(h) \o <<x>> ELSE h \o <<x>>

\* float64 arithmetic on the window: a sum (and so np.mean) with a nan in it is
\* nan, and otherwise one with an inf in it is inf; every comparison with nan
\* is False, and inf is above every finite number.
HasNaN(h) == \E i \in 1..Len(h) : h[i] = NaN
HasInf(h) == \E i \in 1..Len(h) : h[i] = Inf
MeanLess(h, c) == ~HasNaN(h) /\ ~HasInf(h) /\ EarSum(h) < c * Len(h)
MeanGreater(h, c) == ~HasNaN(h) /\ (HasInf(h) \/ EarSum(h) > c * Len(h))

\* Faulty variant: the raw EAR is classified, not the window mean.
EarBelowCloseRaw(h, ear_raw) == MeanLess(<<ear_raw>>, ear_threshold)

\* Faulty variant: the window sum is divided by the window capacity.
EarBelowCloseFullWindow(h, ear_raw) ==
    ~HasNaN(h) /\ ~HasInf(h) /\ EarSum(h) < ear_threshold * smooth_window

\* Faulty variant: a mean equal to the close threshold is a closed frame.
EarBelowCloseInclusive(h, ear_raw) ==
    LET w == IF h # <<>> THEN h ELSE <<ear_raw>> IN
    ~HasNaN(w) /\ ~HasInf(w) /\ EarSum(w) <= ear_threshold * Len(w)

\* ear = float(np.mean(self._ear_history)) if self._ear_history else ear_raw,
\* then  ear < self.ear_threshold
EarBelowClose(h, ear_raw) ==
    IF h # <<>> THEN MeanLess(h, ear_threshold)
    ELSE MeanLess(<<ear_raw>>, ear_threshold)

\* Faulty variant: an open frame is one above the close threshold.
EarAboveOpenNoHysteresis(h, ear_raw) ==
    IF h # <<>> THEN MeanGreater(h, ear_threshold)
    ELSE MeanGreater(<<ear_raw>>, ear_threshold)

\* Faulty variant: a mean equal to the open threshold is an open frame.
EarAboveOpenInclusive(h, ear_raw) ==
    LET w == IF h # <<>> THEN h ELSE <<ear_raw>> IN
    ~HasNaN(w) /\ (HasInf(w) \/ EarSum(w) >= open_threshold * Len(w))

\* ... and  ear > self.open_threshold
EarAboveOpen(h, ear_raw) ==
    IF h # <<>> THEN MeanGreater(h, open_threshold)
    ELSE MeanGreater(<<ear_raw>>, open_threshold)

\* Faulty variant: no refractory period.
RefractoryAlwaysPassed(lbt, current_time) == TRUE

\* Faulty variant: the interval is measured from the start of the session.
RefractoryFromSessionStart(lbt, current_time) ==
    \/ lbt = None
    \/ current_time - session_start >= min_blink_interval_s

\* Faulty variant: a blink exactly min_blink_interval_s after the last is
\* suppressed.
RefractoryStrict(lbt, current_time) ==
    \/ lbt = None
    \/ current_time - lbt > min_blink_interval_s

\* The refractory test of _process_frame.
RefractoryPassed(lbt, current_time) ==
    \/ lbt = None
    \/ current_time - lbt >= min_blink_interval_s

\* The detector fields _process_frame reads and writes, as one record.
Det ==
    [blink_count |-> blink_count, ear_history |-> _ear_history,
     eye_closed |-> eye_closed, closed_frames |-> closed_frames,
     open_frames |-> open_frames, last_blink_time |-> last_blink_time]

InitDet ==
    [blink_count |-> 0, ear_history |-> <<>>, eye_closed |-> FALSE,
     closed_frames |-> 0, open_frames |-> 0, last_blink_time |-> None]

\* Faulty variant: the eye is classified open only when the blink is counted.
ProcessFaceStaysClosedWhenSuppressed(d, ear_raw, current_time) ==
    LET h == DequeAppend(d.ear_history, ear_raw) IN
    IF EarBelowClose(h, ear_raw) THEN
        LET cf == d.closed_frames + 1 IN
        [det |-> [d EXCEPT !.ear_history = h,
                           !.closed_frames = cf,
                           !.open_frames = 0,
                           !.eye_closed = IF ~d.eye_closed /\ cf >= consecutive_frames
                                          THEN TRUE ELSE d.eye_closed],
         blink_detected |-> FALSE, guard |-> FALSE]
    ELSE IF EarAboveOpen(h, ear_raw) THEN
        LET of == d.open_frames + 1
            g == d.eye_closed /\ of >= open_frames_required
            counted == g /\ RefractoryPassed(d.last_blink_time, current_time)
        IN
        [det |-> [d EXCEPT !.ear_history = h,
                           !.open_frames = of,
                           !.closed_frames = 0,
                           !.blink_count = IF counted THEN @ + 1 ELSE @,
                           !.last_blink_time = IF counted THEN current_time ELSE @,
                           !.eye_closed = IF counted THEN FALSE ELSE @],
         blink_detected |-> counted, guard |-> g]
    ELSE
        [det |-> [d EXCEPT !.ear_history = h],
         blink_detected |-> FALSE, guard |-> FALSE]

\* Faulty variant: a closed frame leaves the open streak standing.
ProcessFaceKeepsOpenStreak(d, ear_raw, current_time) ==
    LET h == DequeAppend(d.ear_history, ear_raw) IN
    IF EarBelowClose(h, ear_raw) THEN
        LET cf == d.closed_frames + 1 IN
        [det |-> [d EXCEPT !.ear_history = h,
                           !.closed_frames = cf,
                           !.eye_closed = IF ~d.eye_closed /\ cf >= consecutive_frames
                                          THEN TRUE ELSE d.eye_closed],
         blink_detected |-> FALSE, guard |-> FALSE]
    ELSE IF EarAboveOpen(h, ear_raw) THEN
        LET of == d.open_frames + 1
            g == d.eye_closed /\ of >= open_frames_required
            counted == g /\ RefractoryPassed(d.last_blink_time, current_time)
        IN
        [det |-> [d EXCEPT !.ear_history = h,
                           !.open_frames = of,
                           !.closed_frames = 0,
                           !.blink_count = IF counted THEN @ + 1 ELSE @,
                           !.last_blink_time = IF counted THEN current_time ELSE @,
                           !.eye_closed = IF g THEN FALSE ELSE @],
         blink_detected |-> counted, guard |-> g]
    ELSE
        [det |-> [d EXCEPT !.ear_history = h],
         blink_detected |-> FALSE, guard |-> FALSE]

\* The body of `for face_landmarks in results.multi_face_landmarks` for one face
\* whose averaged eye aspect ratio is ear_raw, on detector d at current_time.
\* Returns the new detector, blink_detected, and whether the closed->open guard
\* (eye_closed and open_frames >= open_frames_required) was met.
ProcessFace(d, ear_raw, current_time) ==
    LET h == DequeAppend(d.ear_history, ear_raw) IN
    IF EarBelowClose(h, ear_raw) THEN
        LET cf == d.closed_frames + 1 IN
        [det |-> [d EXCEPT !.ear_history = h,
                           !.closed_frames = cf,
                           !.open_frames = 0,
                           !.eye_closed = IF ~d.eye_closed /\ cf >= consecutive_frames
                                          THEN TRUE ELSE d.eye_closed],
         blink_detected |-> FALSE, guard |-> FALSE]
    ELSE IF EarAboveOpen(h, ear_raw) THEN
        LET of == d.open_frames + 1
            g == d.eye_closed /\ of >= open_frames_required
            counted == g /\ RefractoryPassed(d.last_blink_time, current_time)
        IN
        [det |-> [d EXCEPT !.ear_history = h,
                           !.open_frames = of,
                           !.closed_frames = 0,
                           !.blink_count = IF counted THEN @ + 1 ELSE @,
                           !.last_blink_time = IF counted THEN current_time ELSE @,
                           !.eye_closed = IF g THEN FALSE ELSE @],
         blink_detected |-> counted, guard |-> g]
    ELSE
        [det |-> [d EXCEPT !.ear_history = h],
         blink_detected |-> FALSE, guard |-> FALSE]

\* Faulty variant: a frame without a face is read as an EAR of zero.
ProcessNoFaceAsZeroEar(d) ==
    [det |-> ProcessFace(d, 0, 0).det, blink_detected |-> FALSE, guard |-> FALSE]

\* Faulty variant: a frame without a face breaks the streaks.
ProcessNoFaceResetsStreaks(d) ==
    [det |-> [d EXCEPT !.closed_frames = 0, !.open_frames = 0],
     blink_detected |-> FALSE, guard |-> FALSE]

\* A frame in which results.multi_face_landmarks is None: the loop body is skipped.
ProcessNoFace(d) ==
    [det |-> d, blink_detected |-> FALSE, guard |-> FALSE]

\* ------------------------------------------------------- eye aspect ratio

\* A landmark is a pixel <<x, y>> (int(landmark.x * w), int(landmark.y * h)); an
\* eye is the sequence of its six landmarks p1..p6, eye_landmarks[0..5] in the
\* source.
SqDist(pt1, pt2) ==
    (pt1[1] - pt2[1]) * (pt1[1] - pt2[1]) + (pt1[2] - pt2[2]) * (pt1[2] - pt2[2])

Abs(x) == IF x < 0 THEN -x ELSE x

\* Faulty variant: the city-block distance.
euclidean_dist_cityblock(pt1, pt2) ==
    Abs(pt1[1] - pt2[1]) + Abs(pt1[2] - pt2[2])

\* np.linalg.norm(np.array(pt1) - np.array(pt2)), for points a whole number of
\* pixels apart (the root is exact; the eyes fed to the model are such).
euclidean_dist(pt1, pt2) ==
    CHOOSE r \in 0..(Abs(pt1[1] - pt2[1]) + Abs(pt1[2] - pt2[2])) :
        r * r = SqDist(pt1, pt2)

\* float64 division n / d of non-negative numbers, in hundredths.
FloatDiv(n, d) ==
    IF d = 0 THEN (IF n = 0 THEN NaN ELSE Inf) ELSE (100 * n) \div d

\* eye_aspect_ratio(eye_landmarks), in hundredths.
eye_aspect_ratio(eye_landmarks) ==
    LET A == euclidean_dist(eye_landmarks[2], eye_landmarks[6])
        B == euclidean_dist(eye_landmarks[3], eye_landmarks[5])
        C == euclidean_dist(eye_landmarks[1], eye_landmarks[4])
    IN FloatDiv(A + B, 2 * C)

\* ear_raw = (left_ear + right_ear) / 2.0
RawEar(lm) ==
    LET left_ear == eye_aspect_ratio(lm.left_eye)
        right_ear == eye_aspect_ratio(lm.right_eye)
    IN IF NaN \in {left_ear, right_ear} THEN NaN
       ELSE IF Inf \in {left_ear, right_ear} THEN Inf
       ELSE (left_ear + right_ear) \div 2

\* datetime.isoformat(): the timestamp as text.
Isoformat(t) == <<"iso", t>>

\* (current_time - self.session_start).total_seconds() if self.session_start else 0
SessionDuration(current_time, start) ==
    IF start # None THEN current_time - start ELSE 0

\* self.thread.is_alive()
ThreadIsAlive == thread \in {"alive", "held"}

\* Faulty variant: the dictionary carries the count read before the frame was
\* processed.
BlinkDataStaleCount(d, blink_detected, current_time) ==
    [timestamp |-> Isoformat(current_time),
     blink_count |-> blink_count,
     blink_detected |-> blink_detected,
     session_duration |-> SessionDuration(current_time, session_start),
     last_blink_time |-> IF d.last_blink_time # None
                         THEN Isoformat(d.last_blink_time) ELSE <<"None">>]

\* The dictionary _process_frame returns.
BlinkData(d, blink_detected, current_time) ==
    [timestamp |-> Isoformat(current_time),
     blink_count |-> d.blink_count,
     blink_detected |-> blink_detected,
     session_duration |-> SessionDuration(current_time, session_start),
     last_blink_time |-> IF d.last_blink_time # None
                         THEN Isoformat(d.last_blink_time) ELSE <<"None">>]

\* ------------------------------------------------------------------ actions

\* One call of _process_frame by the tracking loop, on a frame whose face mesh
\* result is `face`: NoFace, or the averaged EAR of the detected face (the mesh is
\* built with max_num_faces = 1, so the loop over faces runs at most once).  The
\* loop calls it only while is_running holds; the call is one atomic step and
\* reads the clock once.  `ref` is advanced by the frames that have a face only.
\* `lm` are the eye landmarks the EAR was computed from (<<>> if not modelled).
\* A loop that was held up inside its iteration processes the frame it holds
\* whatever is_running has become.
ProcessFrameOf(face, lm) ==
    /\ \/ is_running /\ (ThreadIsAlive \/ orphans > 0)
       \/ thread = "held"
    /\ Len(frames) < MaxFrames
    /\ face = NoFace => Cardinality({i \in 1..Len(frames) : frames[i].face = NoFace}) < MaxNoFace
    /\ face \in {Inf, NaN} =>
          Cardinality({i \in 1..Len(frames) : frames[i].face \in {Inf, NaN}}) < MaxDegenerate
    /\ LET current_time == now
           r == IF face # NoFace THEN ProcessFace(Det, face, current_time)
                ELSE ProcessNoFace(Det)
           s == IF face # NoFace THEN ProcessFace(ref, face, current_time)
                ELSE ref
       IN /\ blink_count' = r.det.blink_count
          /\ _ear_history' = r.det.ear_history
          /\ eye_closed' = r.det.eye_closed
          /\ closed_frames' = r.det.closed_frames
          /\ open_frames' = r.det.open_frames
          /\ last_blink_time' = r.det.last_blink_time
          /\ ret' = [op |-> "process_frame",
                      value |-> BlinkData(r.det, r.blink_detected, current_time)]
          /\ frames' = Append(frames, [face |-> face,
                                       blink_detected |-> r.blink_detected,
                                       guard |-> r.guard])
          /\ ref' = IF face # NoFace THEN s.det ELSE ref
    /\ landmarks' = lm
    /\ thread' = IF thread = "held" THEN "alive" ELSE thread
    /\ UNCHANGED <<config, frame_counter, is_running, session_start, orphans, now,
                   reset_seen,
                   stopped_at, total_blinks>>

\* A frame given by the averaged EAR of its face, or NoFace.
ProcessFrame(face) == ProcessFrameOf(face, <<>>)

\* A frame given by the landmarks of the two eyes of its face (lines 178-197).
ProcessLandmarks(lm) == ProcessFrameOf(RawEar(lm), lm)

\* start_tracking(); camera_ok says whether cv2.VideoCapture(0) opens.
\* Faulty variant: a successful start_tracking() begins the count anew.
StartTrackingClearsCount(camera_ok) ==
    /\ ~is_running /\ camera_ok
    /\ is_running' = TRUE
    /\ session_start' = now
    /\ orphans' = IF ThreadIsAlive THEN orphans + 1 ELSE orphans
    /\ thread' = "alive"
    /\ blink_count' = 0
    /\ ret' = [op |-> "start_tracking", value |-> TRUE]
    /\ UNCHANGED <<config, _ear_history, eye_closed, closed_frames, open_frames,
                   last_blink_time, frame_counter, now, frames, reset_seen, ref,
                   landmarks, stopped_at, total_blinks>>

\* A new Thread object replaces self.thread; the old one, if its loop is still
\* alive, runs on unreferenced.
StartTracking(camera_ok) ==
    /\ IF is_running THEN
            /\ ret' = [op |-> "start_tracking", value |-> FALSE]
            /\ UNCHANGED <<is_running, session_start, threads>>
       ELSE IF camera_ok THEN
            /\ is_running' = TRUE
            /\ session_start' = now
            /\ orphans' = IF ThreadIsAlive THEN orphans + 1 ELSE orphans
            /\ thread' = "alive"
            /\ ret' = [op |-> "start_tracking", value |-> TRUE]
       ELSE \* the exception handler calls stop_tracking()
            /\ is_running' = FALSE
            /\ thread' \in IF ThreadIsAlive THEN {thread, "dead"} ELSE {thread}
            /\ ret' = [op |-> "start_tracking", value |-> FALSE]
            /\ UNCHANGED <<session_start, orphans>>
    /\ UNCHANGED <<config, detector, frame_counter, now, frames, reset_seen, ref,
                   landmarks, stopped_at, total_blinks>>

\* Faulty variant: stop_tracking() that joins the thread and leaves is_running
\* as it is.
StopTrackingKeepsFlag ==
    /\ is_running' = is_running
    /\ thread' = IF ThreadIsAlive THEN "dead" ELSE thread
    /\ ret' = [op |-> "stop_tracking", value |-> None]
    /\ UNCHANGED <<config, detector, frame_counter, session_start, orphans, now,
                   frames, reset_seen, ref, landmarks,
                   stopped_at, total_blinks>>

\* stop_tracking(), when the tracking loop ends within the two seconds join
\* waits for it (the loop sees is_running False, or was not alive).
StopTracking ==
    /\ is_running' = FALSE
    /\ thread' = IF ThreadIsAlive THEN "dead" ELSE thread
    /\ ret' = [op |-> "stop_tracking", value |-> None]
    /\ UNCHANGED <<config, detector, frame_counter, session_start, orphans, now,
                   frames, reset_seen, ref, landmarks,
                   stopped_at, total_blinks>>

\* stop_tracking(), when the loop is held up for more than two seconds (in
\* cap.read, face_mesh.process or the callback): join(timeout=2.0) returns with
\* the thread alive, and stop_tracking returns.
StopTrackingJoinTimeout ==
    /\ is_running
    /\ thread = "alive"
    /\ orphans < MaxOrphans
    /\ is_running' = FALSE
    /\ thread' = "held"
    /\ ret' = [op |-> "stop_tracking", value |-> None]
    /\ UNCHANGED <<config, detector, frame_counter, session_start, orphans, now,
                   frames, reset_seen, ref, landmarks,
                   stopped_at, total_blinks>>

\* A tracking loop ends: `while self.is_running` fails, or cap.read() returns
\* ret = False or the iteration raises (read_ok is whether the iteration goes
\* through), and `finally` clears
\* is_running.  `referenced` says whether it is the loop of self.thread.
LoopExit(referenced, read_ok) ==
    /\ ~is_running \/ ~read_ok
    /\ IF referenced
       THEN ThreadIsAlive /\ thread' = "dead" /\ UNCHANGED orphans
       ELSE orphans > 0 /\ orphans' = orphans - 1 /\ UNCHANGED thread
    /\ is_running' = FALSE
    /\ ret' = [op |-> "loop_exit", value |-> None]
    /\ UNCHANGED <<config, detector, frame_counter, session_start, now, frames,
                   reset_seen, ref, landmarks,
                   stopped_at, total_blinks>>

\* Faulty variant: is_tracking is derived from the session start, which
\* stop_tracking leaves in place.
GetCurrentStatsTrackingFromSession ==
    /\ LET current_time == now IN
       ret' = [op |-> "get_current_stats",
               value |->
                 [blink_count |-> blink_count,
                  is_tracking |-> session_start # None,
                  session_start |-> IF session_start # None
                                    THEN Isoformat(session_start) ELSE <<"None">>,
                  session_duration |-> SessionDuration(current_time, session_start),
                  last_blink_time |-> IF last_blink_time # None
                                      THEN Isoformat(last_blink_time) ELSE <<"None">>]]
    /\ UNCHANGED <<config, detector, frame_counter, is_running, session_start,
                   threads, now, frames, reset_seen, ref, landmarks,
                   stopped_at, total_blinks>>

\* get_current_stats()
GetCurrentStats ==
    /\ LET current_time == now IN
       ret' = [op |-> "get_current_stats",
               value |->
                 [blink_count |-> blink_count,
                  is_tracking |-> is_running,
                  session_start |-> IF session_start # None
                                    THEN Isoformat(session_start) ELSE <<"None">>,
                  session_duration |-> SessionDuration(current_time, session_start),
                  last_blink_time |-> IF last_blink_time # None
                                      THEN Isoformat(last_blink_time) ELSE <<"None">>]]
    /\ UNCHANGED <<config, detector, frame_counter, is_running, session_start,
                   threads, now, frames, reset_seen, ref, landmarks,
                   stopped_at, total_blinks>>

\* Faulty variant: the session start is stamped whether or not tracking is active.
ResetSessionStartAlwaysNow == now

\* self.session_start = datetime.utcnow() if self.is_running else None
ResetSessionStart == IF is_running THEN now ELSE None

\* Faulty variant: last_blink_time survives the reset.
ResetSessionKeepsLastBlink ==
    /\ blink_count' = 0
    /\ frame_counter' = 0
    /\ session_start' = ResetSessionStart
    /\ ret' = [op |-> "reset_session", value |-> None]
    /\ reset_seen' = TRUE
    /\ ref' = [ref EXCEPT !.blink_count = 0]
    /\ UNCHANGED <<config, _ear_history, eye_closed, closed_frames, open_frames,
                   last_blink_time, is_running, threads, now, frames, landmarks,
                   stopped_at, total_blinks>>

\* reset_session()
ResetSession ==
    /\ blink_count' = 0
    /\ frame_counter' = 0
    /\ session_start' = ResetSessionStart
    /\ last_blink_time' = None
    /\ ret' = [op |-> "reset_session", value |-> None]
    /\ reset_seen' = TRUE
    /\ ref' = [ref EXCEPT !.blink_count = 0, !.last_blink_time = None]
    /\ UNCHANGED <<config, _ear_history, eye_closed, closed_frames, open_frames,
                   is_running, threads, now, frames, landmarks,
                   stopped_at, total_blinks>>

\* The wall clock advances.
Tick ==
    /\ now < MaxTime
    /\ now' = now + 1
    /\ ret' = [op |-> "tick", value |-> None]
    /\ UNCHANGED <<config, detector, frame_counter, is_running, session_start,
                   threads, frames, reset_seen, ref, landmarks,
                   stopped_at, total_blinks>>

\* The application starts a session (WaWMainWindow.start_tracking, the user
\* being logged in); it cannot while its stop flow is under way.
AppStartTracking(camera_ok) ==
    /\ total_blinks = None
    /\ StartTracking(camera_ok)

\* The application's stop flow begins (toggle_tracking calls it while the
\* tracker is running): it reads get_current_stats() and keeps blink_count as
\* the total_blinks of the session summary, which it then uploads.  The
\* tracking loop runs on meanwhile.
AppStopSnapshot ==
    /\ is_running
    /\ total_blinks = None
    /\ total_blinks' = blink_count
    /\ LET current_time == now IN
       ret' = [op |-> "get_current_stats",
               value |->
                 [blink_count |-> blink_count,
                  is_tracking |-> is_running,
                  session_start |-> IF session_start # None
                                    THEN Isoformat(session_start) ELSE <<"None">>,
                  session_duration |-> SessionDuration(current_time, session_start),
                  last_blink_time |-> IF last_blink_time # None
                                      THEN Isoformat(last_blink_time) ELSE <<"None">>]]
    /\ UNCHANGED <<config, detector, frame_counter, is_running, session_start,
                   threads, now, frames, reset_seen, ref, landmarks, stopped_at>>

\* The stop flow ends (its `finally`): stop_tracking(), the loop ending within
\* the join, then reset_session(), which finds is_running False.  The step
\* returns the total_blinks that went into the summary.
AppStopFinally ==
    /\ total_blinks # None
    /\ is_running' = FALSE
    /\ thread' = IF ThreadIsAlive THEN "dead" ELSE thread
    /\ blink_count' = 0
    /\ frame_counter' = 0
    /\ session_start' = None
    /\ last_blink_time' = None
    /\ ret' = [op |-> "app_stop_tracking", value |-> total_blinks]
    /\ reset_seen' = TRUE
    /\ ref' = [ref EXCEPT !.blink_count = 0, !.last_blink_time = None]
    /\ total_blinks' = None
    /\ stopped_at' = Len(frames)
    /\ UNCHANGED <<config, _ear_history, eye_closed, closed_frames, open_frames,
                   orphans, now, frames, landmarks>>

\* ------------------------------------------------------------ specification

\* Faulty variant: the window size is taken as given.
SmoothWindowUnclamped(sw) == sw

\* self.smooth_window = max(1, int(smooth_window))
SmoothWindow(sw) == IF sw > 1 THEN sw ELSE 1

\* Faulty variant: the smoothing window starts with a zero sample in it.
ConstructedWindowPrefilled(et, cf, mbi, ofr, hd, sw) ==
    /\ ear_threshold = et
    /\ consecutive_frames = cf
    /\ min_blink_interval_s = mbi
    /\ open_frames_required = ofr
    /\ hysteresis_delta = hd
    /\ open_threshold = OpenThreshold(et, hd)
    /\ smooth_window = SmoothWindow(sw)
    /\ blink_count = 0
    /\ frame_counter = 0
    /\ is_running = FALSE
    /\ _ear_history = <<0>>
    /\ eye_closed = FALSE
    /\ closed_frames = 0
    /\ open_frames = 0
    /\ session_start = None
    /\ last_blink_time = None
    /\ thread = "none"
    /\ orphans = 0

\* EyeTracker(...): the state __init__ leaves, for the constructor arguments given.
Constructed(et, cf, mbi, ofr, hd, sw) ==
    /\ ear_threshold = et
    /\ consecutive_frames = cf
    /\ min_blink_interval_s = mbi
    /\ open_frames_required = ofr
    /\ hysteresis_delta = hd
    /\ open_threshold = OpenThreshold(et, hd)
    /\ smooth_window = SmoothWindow(sw)
    /\ blink_count = 0
    /\ frame_counter = 0
    /\ is_running = FALSE
    /\ _ear_history = <<>>
    /\ eye_closed = FALSE
    /\ closed_frames = 0
    /\ open_frames = 0
    /\ session_start = None
    /\ last_blink_time = None
    /\ thread = "none"
    /\ orphans = 0

InitObservers ==
    /\ now = 0
    /\ ret = [op |-> "__init__", value |-> None]
    /\ frames = <<>>
    /\ reset_seen = FALSE
    /\ ref = InitDet
    /\ landmarks = <<>>
    /\ total_blinks = None
    /\ stopped_at = 0

Init ==
    /\ \E sw \in 0..MaxWindow, cf \in {1, DefaultConsecutiveFrames},
          ofr \in {1, DefaultOpenFramesRequired} :
          Constructed(DefaultEarThreshold, cf, DefaultMinBlinkInterval, ofr,
                      DefaultHysteresisDelta, sw)
    /\ InitObservers

\* The tracker is started and fed closed-eye and open-eye frames.
NextDetect ==
    \/ \E camera_ok \in BOOLEAN : StartTracking(camera_ok)
    \/ \E face \in {ClosedEar, OpenEar} : ProcessFrame(face)
    \/ Tick

SpecDetect == Init /\ [][NextDetect]_vars

\* ... with frames in which no face is found.
NextNoFace ==
    \/ \E camera_ok \in BOOLEAN : StartTracking(camera_ok)
    \/ \E face \in {ClosedEar, OpenEar, NoFace} : ProcessFrame(face)
    \/ Tick

SpecNoFace == Init /\ [][NextNoFace]_vars

\* Raw EARs strictly between the two thresholds (the hysteresis dead zone).
DeadZoneEars == (ear_threshold + 1)..(open_threshold - 1)

\* Raw EARs close_threshold - e and close_threshold + e, the latter below the
\* open threshold.
ChatterEars(e) == {ear_threshold - e, ear_threshold + e}
ChatterEps == 1..(hysteresis_delta - 1)

\* Every frame processed so far has a face, with its raw EAR in S.
FedFrom(S) == \A i \in 1..Len(frames) : frames[i].face \in S

\* The tracker is fed an EAR that oscillates around the close threshold.
NextChatter ==
    \/ \E camera_ok \in BOOLEAN : StartTracking(camera_ok)
    \/ \E e \in ChatterEps : \E face \in ChatterEars(e) :
          FedFrom(ChatterEars(e)) /\ ProcessFrame(face)
    \/ Tick

SpecChatter == Init /\ [][NextChatter]_vars

\* The tracker is fed closed-eye and open-eye frames, and one landmark set whose
\* raw EAR lies in the dead zone (the same one each time).
NextDeadZone ==
    \/ \E camera_ok \in BOOLEAN : StartTracking(camera_ok)
    \/ \E face \in {ClosedEar, OpenEar} : ProcessFrame(face)
    \/ \E face \in DeadZoneEars :
          /\ \A i \in 1..Len(frames) :
                frames[i].face \in DeadZoneEars => frames[i].face = face
          /\ ProcessFrame(face)
    \/ Tick

SpecDeadZone == Init /\ [][NextDeadZone]_vars

\* Raw EARs equal to one of the two thresholds.
BoundaryEars == {ear_threshold, open_threshold}

\* The tracker is fed closed-eye and open-eye frames and frames whose raw EAR
\* is exactly a threshold, all within one refractory period.
NextBoundary ==
    \/ \E camera_ok \in BOOLEAN : StartTracking(camera_ok)
    \/ \E face \in {ClosedEar, OpenEar} \cup BoundaryEars : ProcessFrame(face)

SpecBoundary == Init /\ [][NextBoundary]_vars

\* The tracker is fed open-eye frames and outliers.
NextNoise ==
    \/ \E camera_ok \in BOOLEAN : StartTracking(camera_ok)
    \/ \E face \in {OutlierEar, BarelyOpenEar, OpenEar} : ProcessFrame(face)
    \/ Tick

SpecNoise == Init /\ [][NextNoise]_vars

\* ... with the session operations of the application.
Next ==
    \/ \E camera_ok \in BOOLEAN : StartTracking(camera_ok)
    \/ \E face \in {ClosedEar, OpenEar} : ProcessFrame(face)
    \/ StopTracking
    \/ GetCurrentStats
    \/ ResetSession
    \/ Tick

Spec == Init /\ [][Next]_vars

\* The application: sessions are started by the user, fed frames by the
\* tracking loop, and ended by the stop flow.
NextApp ==
    \/ \E camera_ok \in BOOLEAN : AppStartTracking(camera_ok)
    \/ \E face \in {ClosedEar, OpenEar} : ProcessFrame(face)
    \/ AppStopSnapshot
    \/ AppStopFinally
    \/ Tick

SpecApp == Init /\ [][NextApp]_vars

\* ------------------------------------------------------- reading the frames

FrameIdx == 1..Len(frames)
\* The frames that reported blink_detected = true.
Detected == {i \in FrameIdx : frames[i].blink_detected}
\* The frames on which eye_closed held and open_frames reached open_frames_required.
GuardMet == {i \in FrameIdx : frames[i].guard}
FirstOf(S) == CHOOSE i \in S : \A j \in S : i <= j

\* The frames so far: nc closed-eye frames, then no open-eye frames.
FedExactly(nc, no) ==
    /\ Len(frames) = nc + no
    /\ \A i \in 1..nc : frames[i].face = ClosedEar
    /\ \A i \in (nc + 1)..(nc + no) : frames[i].face = OpenEar

DefaultConfig ==
    /\ ear_threshold = DefaultEarThreshold
    /\ hysteresis_delta = DefaultHysteresisDelta
    /\ min_blink_interval_s = DefaultMinBlinkInterval
    /\ consecutive_frames = DefaultConsecutiveFrames
    /\ open_frames_required = DefaultOpenFramesRequired
    /\ smooth_window = DefaultSmoothWindow

\* A step that processed one frame, and that frame.
FrameStep == Len(frames') = Len(frames) + 1
NewFrame == frames'[Len(frames')]

\* ------------------------------------------------------------------- claims

\* C1 as stated: on a fresh detector, consecutive_frames frames of raw EAR 0.10
\* followed by open_frames_required frames of raw EAR 0.35 count exactly one
\* blink, reported on exactly one frame, the first that meets the open guard;
\* for smooth_window = 1 and for the default configuration.
C1_ThresholdCrossingAsStated ==
    (/\ ~reset_seen
     /\ smooth_window = 1 \/ DefaultConfig
     /\ FedExactly(consecutive_frames, open_frames_required))
    => /\ blink_count = 1
       /\ GuardMet # {}
       /\ Detected = {FirstOf(GuardMet)}

\* C1 amended: the statement holds for smooth_window = 1.  With the default
\* configuration the window mean lags: after 2 closed and 2 open frames no blink
\* is counted and none reported; one more open frame (open_frames_required + 1
\* in all) counts exactly one blink, reported on the first frame meeting the guard.
C1_ThresholdCrossing ==
    ~reset_seen =>
      /\ (smooth_window = 1 /\ FedExactly(consecutive_frames, open_frames_required))
         => (blink_count = 1 /\ GuardMet # {} /\ Detected = {FirstOf(GuardMet)}
             /\ FirstOf(GuardMet) = Len(frames))
      /\ (DefaultConfig /\ FedExactly(consecutive_frames, open_frames_required))
         => (blink_count = 0 /\ Detected = {} /\ GuardMet = {})
      /\ (DefaultConfig /\ FedExactly(consecutive_frames, open_frames_required + 1))
         => (blink_count = 1 /\ GuardMet # {} /\ Detected = {FirstOf(GuardMet)}
             /\ FirstOf(GuardMet) = Len(frames))

C1_Witness ==
    /\ DefaultConfig
    /\ ~reset_seen
    /\ FedExactly(consecutive_frames, open_frames_required + 1)
    /\ blink_count = 1
    /\ frames[Len(frames)].blink_detected

\* C2: a frame that meets the open guard less than min_blink_interval_s after
\* the last counted blink does not count a blink (blink_count and
\* last_blink_time stay, blink_detected is false) and still opens the eye.
C2_RefractorySuppression ==
    [][(/\ FrameStep
        /\ NewFrame.guard
        /\ last_blink_time # None
        /\ now - last_blink_time < min_blink_interval_s)
       => (/\ blink_count' = blink_count
           /\ last_blink_time' = last_blink_time
           /\ ~NewFrame.blink_detected
           /\ eye_closed /\ ~eye_closed')]_vars

\* Two qualifying sequences were processed, the second within the refractory
\* period of the first: one blink counted, the eye open.
C2_Witness ==
    /\ ~reset_seen
    /\ Cardinality(GuardMet) = 2
    /\ Cardinality(Detected) = 1
    /\ frames[Len(frames)].guard
    /\ blink_count = 1
    /\ ~eye_closed

\* C3: on a fresh detector, frames whose raw EARs all lie in
\* {close_threshold - e, close_threshold + e}, with close_threshold + e below the
\* open threshold, count no blink and report none, whatever their number and
\* whatever smooth_window.
C3_HysteresisPreventsChatter ==
    (~reset_seen /\ \E e \in ChatterEps : FedFrom(ChatterEars(e)))
    => (blink_count = 0 /\ Detected = {} /\ GuardMet = {})

\* An oscillating sequence that closed the eye.
C3_Witness ==
    /\ \E e \in ChatterEps : FedFrom(ChatterEars(e))
    /\ Len(frames) >= 4
    /\ \A i \in 1..(Len(frames) - 1) : frames[i].face # frames[i + 1].face
    /\ eye_closed
    /\ smooth_window >= 2
    /\ blink_count = 0

\* C4: a frame with no detected face changes no field of the detector
\* (eye_closed, both streaks, blink_count, last_blink_time, the smoothing
\* window), and its result reports blink_detected = false with the unchanged
\* blink_count: it is not read as a closed-eye sample.
C4_NoFaceLeavesState ==
    [][(FrameStep /\ NewFrame.face = NoFace)
       => (/\ UNCHANGED detector
           /\ ret'.op = "process_frame"
           /\ ~ret'.value.blink_detected
           /\ ret'.value.blink_count = blink_count)]_vars

\* A no-face frame arrived while the eye was classified closed, in a closed streak.
C4_Witness ==
    /\ Len(frames) >= 2
    /\ frames[Len(frames)].face = NoFace
    /\ ret.op = "process_frame"
    /\ eye_closed
    /\ closed_frames >= 1
    /\ _ear_history # <<>>

\* C5: with no-face frames inserted between the valid frames, both streaks and
\* blink_count (and the eye state) equal those of the detector that processed
\* the same valid frames, at the same timestamps, without the inserted frames.
C5_NoFaceNeutral ==
    /\ blink_count = ref.blink_count
    /\ closed_frames = ref.closed_frames
    /\ open_frames = ref.open_frames
    /\ eye_closed = ref.eye_closed

\* A no-face frame between the closed and the open frames of a counted blink.
C5_Witness ==
    /\ blink_count = 1
    /\ \E i \in FrameIdx :
          /\ frames[i].face = NoFace
          /\ \E k \in 1..(i - 1) : frames[k].face = ClosedEar
          /\ \E j \in (i + 1)..Len(frames) : frames[j].blink_detected

\* The last n frames all had a raw EAR in the dead zone.
LastFedFrom(fs, n, S) ==
    /\ Len(fs) >= n
    /\ \A i \in (Len(fs) - n + 1)..Len(fs) : fs[i].face \in S

\* C6 as stated: a frame whose raw EAR lies strictly between the thresholds
\* never changes blink_count, eye_closed or either streak, whatever the window
\* holds.
C6_DeadZoneAsStated ==
    [][(FrameStep /\ NewFrame.face \in DeadZoneEars)
       => UNCHANGED <<blink_count, eye_closed, closed_frames, open_frames>>]_vars

\* C6 amended: such a frame changes none of them once the window holds only
\* dead-zone samples: from the smooth_window-th consecutive such frame on.
C6_DeadZoneIdempotent ==
    [][(/\ FrameStep
        /\ NewFrame.face \in DeadZoneEars
        /\ \/ LastFedFrom(frames', smooth_window, DeadZoneEars)
           \/ \A k \in 1..Len(_ear_history') : _ear_history'[k] \in DeadZoneEars)
       => UNCHANGED <<blink_count, eye_closed, closed_frames, open_frames,
                      last_blink_time>>]_vars

\* Dead-zone frames filled a window of 2 or more after the eye had closed.
C6_Witness ==
    /\ smooth_window >= 2
    /\ Len(frames) > smooth_window
    /\ LastFedFrom(frames, smooth_window, DeadZoneEars)
    /\ eye_closed
    /\ closed_frames >= 1

\* The frames with the outlier EAR; every other frame is an open-eye frame.
Outliers == {i \in FrameIdx : frames[i].face = OutlierEar}
SingleOutlierAmongOpen ==
    /\ Cardinality(Outliers) = 1
    /\ \A i \in FrameIdx \ Outliers : frames[i].face > open_threshold

\* C7 as stated: with smooth_window >= 3 a single outlier among open-eye frames
\* (raw EAR above open_threshold) never brings closed_frames to
\* consecutive_frames, never closes the eye and counts no blink; with
\* smooth_window = 1 the outlier increments closed_frames.
C7_SmoothingAsStated ==
    (~reset_seen /\ SingleOutlierAmongOpen) =>
      /\ smooth_window >= 3
         => (closed_frames < consecutive_frames /\ ~eye_closed /\ blink_count = 0)
      /\ (smooth_window = 1 /\ Outliers = {Len(frames)}) => closed_frames = 1

\* C7 amended: with smooth_window = W >= 3, a single outlier of raw EAR o that
\* comes after at least W - 1 open-eye frames, all open-eye frames having a raw
\* EAR v with (W - 1) * v + o > W * close_threshold, leaves closed_frames at 0 and
\* the eye open and counts no blink; with smooth_window = 1 the outlier
\* increments closed_frames.
C7_SmoothingDampens ==
    (~reset_seen /\ SingleOutlierAmongOpen) =>
      /\ (/\ smooth_window >= 3
          /\ \A p \in Outliers : p >= smooth_window
          /\ \A i \in FrameIdx \ Outliers :
                (smooth_window - 1) * frames[i].face + OutlierEar
                    > smooth_window * ear_threshold)
         => (closed_frames = 0 /\ ~eye_closed /\ blink_count = 0 /\ Detected = {})
      /\ (smooth_window = 1 /\ Outliers = {Len(frames)}) => closed_frames = 1

\* The outlier came into a full window of open-eye frames and was followed by one.
C7_Witness ==
    /\ smooth_window >= 3
    /\ SingleOutlierAmongOpen
    /\ \A i \in FrameIdx \ Outliers : frames[i].face = OpenEar
    /\ \E p \in Outliers : p >= smooth_window /\ p < Len(frames)
    /\ closed_frames = 0
    /\ ~eye_closed

\* A step that is a call of reset_session() / get_current_stats().
ResetStep == ret'.op = "reset_session"
StatsStep == ret'.op = "get_current_stats"

\* C8 as stated: reset_session() called with blink_count > 0 leaves
\* blink_count = 0, last_blink_time = None and a newly stamped session_start.
C8_ResetAsStated ==
    [][(ResetStep /\ blink_count > 0)
       => (/\ blink_count' = 0
           /\ last_blink_time' = None
           /\ session_start' # None
           /\ session_start' = now)]_vars

\* C8 amended: ... blink_count = 0 and last_blink_time = None; session_start
\* is newly stamped when tracking is active at the call and None when it is not.
C8_ResetRestoresZero ==
    [][(ResetStep /\ blink_count > 0)
       => (/\ blink_count' = 0
           /\ last_blink_time' = None
           /\ is_running => session_start' = now
           /\ ~is_running => session_start' = None)]_vars

\* The application's stop flow after a counted blink: stopped, then reset.
C8_Witness ==
    /\ ret.op = "reset_session"
    /\ Detected # {}
    /\ ~is_running
    /\ blink_count = 0
    /\ last_blink_time = None
    /\ session_start = None

\* C9: reset_session() leaves the smoothing window empty, both streaks 0 and the
\* eye open.
C9_ResetClearsDetector ==
    [][ResetStep
       => (/\ _ear_history' = <<>>
           /\ closed_frames' = 0
           /\ open_frames' = 0
           /\ ~eye_closed')]_vars

\* C10: reset_session() sets session_start to the current time if and only if
\* tracking is active at the call, and to None otherwise; get_current_stats()
\* then reports a session_duration of 0.
C10_ResetSessionStart ==
    [][/\ ResetStep => /\ session_start' = now <=> is_running
                       /\ ~is_running => session_start' = None
       /\ (StatsStep /\ session_start = None)
            => ret'.value.session_duration = 0]_vars

\* Stopped, reset, and asked for the statistics at a later time.
C10_Witness ==
    /\ ret.op = "get_current_stats"
    /\ reset_seen
    /\ ~is_running
    /\ Len(frames) > 0
    /\ now > 0
    /\ session_start = None
    /\ ret.value.session_duration = 0

\* ------------------------------------------------------------ tracking threads

\* The tracking-loop threads that are alive.
AliveLoops == (IF ThreadIsAlive THEN 1 ELSE 0) + orphans

\* The tracker is started and stopped while its loop may be held up past the
\* join timeout, and the camera may stop delivering frames.
NextThreads ==
    \/ \E camera_ok \in BOOLEAN : StartTracking(camera_ok)
    \/ \E face \in {ClosedEar, OpenEar} : ProcessFrame(face)
    \/ StopTracking
    \/ StopTrackingJoinTimeout
    \/ \E referenced, read_ok \in BOOLEAN : LoopExit(referenced, read_ok)
    \/ ResetSession
    \/ Tick

SpecThreads == Init /\ [][NextThreads]_vars

\* ------------------------------------------------------- frames by landmarks

\* A symmetric hexagonal eye outline p1..p6 of width w and half height b: the
\* corners p1, p4 on the axis, the lid points a quarter of the width in.  Its
\* aspect ratio is height over width, 2b / w.
Hexagon(w, b) ==
    LET q == w \div 4 IN
    << <<0, b>>, <<q, 0>>, <<w - q, 0>>, <<w, b>>, <<w - q, 2 * b>>, <<q, 2 * b>> >>

\* An eye of width w whose lower lid points are offset from the upper ones by
\* (3k, 4k), so that both lid distances are 5k.
Slanted(w, k) ==
    LET q == w \div 4 IN
    << <<0, 2 * k>>, <<q, 0>>, <<w - q, 0>>, <<w, 2 * k>>,
       <<w - q - 3 * k, 4 * k>>, <<q + 3 * k, 4 * k>> >>

BothEyes(eye) == [left_eye |-> eye, right_eye |-> eye]
ClosedEyes == BothEyes(Hexagon(TestEyes.width, TestEyes.closed))
OpenEyes == BothEyes(Hexagon(TestEyes.width, TestEyes.open))
\* A slanted left eye (EAR 0.25) and an open right eye (EAR 0.35).
UnequalEyes ==
    [left_eye |-> Slanted(TestEyes.width, TestEyes.slant),
     right_eye |-> Hexagon(TestEyes.width, TestEyes.open)]
\* The left eye has collapsed to a vertical line (its corners coincide).
CollapsedEye ==
    [left_eye |-> Hexagon(0, TestEyes.closed),
     right_eye |-> Hexagon(TestEyes.width, TestEyes.open)]
\* Both eyes have collapsed to a single pixel each.
PointEyes == BothEyes(Hexagon(0, 0))

\* The eye-corner distance |p1 - p4| of one of the eyes is 0.
Degenerate(lm) ==
    \/ lm.left_eye[1] = lm.left_eye[4]
    \/ lm.right_eye[1] = lm.right_eye[4]

\* The tracker is fed frames given by the landmarks of regular eyes.
NextEar ==
    \/ \E camera_ok \in BOOLEAN : StartTracking(camera_ok)
    \/ \E lm \in {ClosedEyes, OpenEyes, UnequalEyes} : ProcessLandmarks(lm)
    \/ Tick

SpecEar == Init /\ [][NextEar]_vars

\* The tracker is fed regular frames and frames with degenerate eye landmarks.
NextDegenerate ==
    \/ \E camera_ok \in BOOLEAN : StartTracking(camera_ok)
    \/ \E lm \in {ClosedEyes, OpenEyes, CollapsedEye, PointEyes} : ProcessLandmarks(lm)
    \/ Tick

SpecDegenerate == Init /\ [][NextDegenerate]_vars

\* The last frame was given by landmarks, and they were degenerate.
DegenerateStep == FrameStep /\ landmarks' # <<>> /\ Degenerate(landmarks')

\* ---------------------------------------------------------------------- C11

\* C11: within a session blink_count is monotonic.  Every step other than
\* reset_session (process_frame, get_current_stats, start_tracking,
\* stop_tracking) leaves blink_count at least as large as it was, and a single
\* process_frame raises it by at most 1.
C11_BlinkCountMonotonic ==
    [][~ResetStep =>
         /\ blink_count' >= blink_count
         /\ FrameStep => blink_count' <= blink_count + 1]_vars

\* Two blinks were counted, the tracker was then stopped and started again, and
\* reset_session was never called.
C11_Witness ==
    /\ blink_count = 2
    /\ ~reset_seen
    /\ ret = [op |-> "start_tracking", value |-> TRUE]

\* ---------------------------------------------------------------------- C12

\* C12: a frame whose eye landmarks are degenerate (a corner distance
\* |p1 - p4| of 0) is skipped like a frame without a face: it changes no part
\* of the detector state (smoothing window, streaks, eye_closed, blink_count,
\* last_blink_time) and reports no blink.
C12_DegenerateFrameSkipped ==
    [][DegenerateStep => UNCHANGED detector /\ ~NewFrame.blink_detected]_vars

\* ---------------------------------------------------------------------- C13

\* C13: get_current_stats() is a read-only snapshot.  The call changes no field
\* of the tracker (configuration, detector state, is_running, session_start,
\* the thread), and the blink_count, is_tracking and last_blink_time it returns
\* are the tracker's blink_count, is_running and last_blink_time (as ISO text,
\* or None) at the call.
C13_StatsReadOnly ==
    [][StatsStep =>
         /\ UNCHANGED <<config, detector, frame_counter, is_running, session_start,
                        threads>>
         /\ ret'.value.blink_count = blink_count
         /\ ret'.value.is_tracking = is_running
         /\ ret'.value.last_blink_time =
               IF last_blink_time = None THEN <<"None">>
               ELSE Isoformat(last_blink_time)]_vars

\* Statistics were read after a blink had been counted and the tracker stopped.
C13_Witness ==
    /\ ret.op = "get_current_stats"
    /\ ret.value.blink_count = 1
    /\ ~ret.value.is_tracking
    /\ ret.value.last_blink_time # <<"None">>

\* ---------------------------------------------------------------------- C14

\* C14: over any sequence of start_tracking() and stop_tracking() calls, at most
\* one tracking-loop thread is alive while the tracker is running, so that only
\* one thread executes _process_frame.
C14_SingleTrackingThread == is_running => AliveLoops <= 1

\* ---------------------------------------------------------------------- C15

\* C15: once stop_tracking() has returned, the tracking thread has finished its
\* last _process_frame: while the tracker is not running no frame is processed
\* and nothing but reset_session changes the detector state, so that after the
\* stop flow (stop_tracking() then reset_session()) blink_count stays 0 and
\* last_blink_time stays None.
C15_QuietAfterStop ==
    [][~is_running /\ ~ResetStep => ~FrameStep /\ UNCHANGED detector]_vars

\* ---------------------------------------------------------------------- C16

\* C16: a newly constructed EyeTracker is in the initial state: eye_closed is
\* false, blink_count and both frame streaks are 0, the smoothing window is
\* empty, last_blink_time and session_start are unset, and is_running is false.
C16_InitialState ==
    ret.op = "__init__" =>
        /\ ~eye_closed
        /\ blink_count = 0
        /\ closed_frames = 0
        /\ open_frames = 0
        /\ _ear_history = <<>>
        /\ last_blink_time = None
        /\ session_start = None
        /\ ~is_running

\* A tracker just constructed with the default arguments.
C16_Witness == ret.op = "__init__" /\ DefaultConfig

\* ---------------------------------------------------------------------- C17

StartStep == ret'.op = "start_tracking"
StopStep == ret'.op = "stop_tracking"

\* C17: start_tracking() that returns True was called on a tracker that was not
\* running and leaves is_running true with session_start stamped with the
\* current time; one that returns False leaves is_running as it was.  After
\* stop_tracking() is_running is false, whatever it was before.
C17_StartStopLifecycle ==
    [][/\ StartStep /\ ret'.value = TRUE =>
            ~is_running /\ is_running' /\ session_start' = now /\ session_start' # None
       /\ StartStep /\ ret'.value = FALSE => is_running' = is_running
       /\ StopStep => ~is_running']_vars

\* The tracker was started, processed a frame and was stopped: stop_tracking()
\* has just returned.
C17_Witness ==
    /\ ret.op = "stop_tracking"
    /\ ~is_running
    /\ thread = "dead"
    /\ session_start # None
    /\ Len(frames) > 0

\* ---------------------------------------------------------------------- C18

\* C18: the configuration is fixed at construction.  No operation changes the
\* close threshold, hysteresis_delta, the open threshold, the numbers of closed
\* and open frames required, the refractory period or the window capacity; in
\* every reachable state the open threshold is the close threshold plus
\* hysteresis_delta and the window capacity is at least 1.
C18_ConfigFixed ==
    /\ [](open_threshold = ear_threshold + hysteresis_delta /\ smooth_window >= 1)
    /\ [][UNCHANGED config]_vars

\* A tracker built with smooth_window of at most 1 that has counted a blink, was
\* stopped and reset.
C18_Witness ==
    /\ smooth_window = 1
    /\ reset_seen
    /\ ~is_running
    /\ Len(frames) > 0
    /\ ret.op = "get_current_stats"

\* ---------------------------------------------------------------------- C19

\* The aspect ratio of the hexagon of width w and half height b, height over
\* width, and the ratio (5k + 5k) / (2w) of the slanted eye, in hundredths.
HexagonRatio(w, b) == (100 * 2 * b) \div w
SlantedRatio(w, k) == (100 * 10 * k) \div (2 * w)

\* The frame just processed was computed from the landmarks lm.
LandmarkStep(lm) == FrameStep /\ landmarks' = lm

\* C19: eye_aspect_ratio of six points with |p1 - p4| > 0 is
\* (|p2 - p6| + |p3 - p5|) / (2 |p1 - p4|) with Euclidean distances, and the raw
\* EAR of a frame is the mean of the left and the right ratio: a frame of two
\* equal symmetric hexagons has the hexagon's height over width as raw EAR, and
\* a frame of a slanted left eye (lid distances 5k by Pythagoras) and a hexagonal
\* right eye has the mean of the two closed-form values.
C19_EarFormula ==
    [][/\ LandmarkStep(ClosedEyes) =>
            NewFrame.face = HexagonRatio(TestEyes.width, TestEyes.closed)
       /\ LandmarkStep(OpenEyes) =>
            NewFrame.face = HexagonRatio(TestEyes.width, TestEyes.open)
       /\ LandmarkStep(UnequalEyes) =>
            2 * NewFrame.face = SlantedRatio(TestEyes.width, TestEyes.slant)
                                + HexagonRatio(TestEyes.width, TestEyes.open)]_vars

\* A frame of unequal eyes was processed: its raw EAR lies between the two
\* ratios, above the open threshold.
C19_Witness ==
    /\ landmarks = UnequalEyes
    /\ frames[Len(frames)].face > SlantedRatio(TestEyes.width, TestEyes.slant)
    /\ frames[Len(frames)].face < HexagonRatio(TestEyes.width, TestEyes.open)
    /\ open_frames > 0

\* ---------------------------------------------------------------------- C20

\* C20: every EAR sample that enters the detector is a well-defined number of
\* at least 0: no raw EAR in the smoothing window is negative, infinite or
\* undefined, whatever the landmarks, eyes with a corner distance of 0 included.
C20_EarWellDefined ==
    \A i \in 1..Len(_ear_history) :
        _ear_history[i] \notin {Inf, NaN} /\ _ear_history[i] >= 0

\* ------------------------------------------- reading the frames: smoothed EAR

\* The raw EARs of the frames with a face among the first n frames processed,
\* in arrival order.
RECURSIVE RawUpTo(_)
RawUpTo(n) ==
    IF n = 0 THEN <<>>
    ELSE IF frames[n].face = NoFace THEN RawUpTo(n - 1)
    ELSE Append(RawUpTo(n - 1), frames[n].face)

\* The last k elements of s (all of s if it has fewer).
LastN(s, k) == IF Len(s) <= k THEN s ELSE SubSeq(s, Len(s) - k + 1, Len(s))

\* What a sliding window of smooth_window samples holds after frame n.
WindowAfter(n) == LastN(RawUpTo(n), smooth_window)

\* How frame n is classified by the mean of that window.
Class(n) ==
    IF frames[n].face = NoFace THEN "no_face"
    ELSE IF MeanLess(WindowAfter(n), ear_threshold) THEN "closed"
    ELSE IF MeanGreater(WindowAfter(n), open_threshold) THEN "open"
    ELSE "dead_zone"

\* The number of frames classified closed that immediately precede the end of
\* the first n frames, with nothing else in between.
RECURSIVE ClosedRun(_)
ClosedRun(n) ==
    IF n = 0 \/ Class(n) # "closed" THEN 0 ELSE 1 + ClosedRun(n - 1)

\* The number of frames classified closed among the first n since the last one
\* classified open; frames in the dead zone and frames without a face are
\* passed over.
RECURSIVE ClosedSinceOpen(_)
ClosedSinceOpen(n) ==
    IF n = 0 \/ Class(n) = "open" THEN 0
    ELSE (IF Class(n) = "closed" THEN 1 ELSE 0) + ClosedSinceOpen(n - 1)

\* ---------------------------------------------------------------------- C21

NewClass ==
    IF NewFrame.face = NoFace THEN "no_face"
    ELSE IF MeanLess(_ear_history', ear_threshold) THEN "closed"
    ELSE IF MeanGreater(_ear_history', open_threshold) THEN "open"
    ELSE "dead_zone"

\* C22: a frame whose smoothed EAR is strictly below the close threshold raises
\* closed_frames by exactly 1, sets open_frames to 0, turns eye_closed true if
\* it was false and the new closed_frames >= consecutive_frames, leaves
\* eye_closed as it was otherwise, and leaves blink_count and last_blink_time
\* unchanged.  A frame whose smoothed EAR is at or above the close threshold
\* does not raise closed_frames.
C22_ClosedFrameStep ==
    [][FrameStep =>
         /\ NewClass = "closed" =>
              /\ closed_frames' = closed_frames + 1
              /\ open_frames' = 0
              /\ eye_closed' = (eye_closed \/ closed_frames' >= consecutive_frames)
              /\ UNCHANGED <<blink_count, last_blink_time>>
              /\ ~NewFrame.blink_detected
         /\ NewClass # "closed" => closed_frames' <= closed_frames]_vars

\* A frame whose smoothed EAR equals the close threshold has just been
\* processed after a closed frame: the streak stands at 1 and the eye is not
\* classified closed.
C22_Witness ==
    /\ Len(frames) >= 2
    /\ consecutive_frames = DefaultConsecutiveFrames
    /\ Class(Len(frames) - 1) = "closed"
    /\ EarSum(WindowAfter(Len(frames))) = ear_threshold * Len(WindowAfter(Len(frames)))
    /\ closed_frames = 1
    /\ ~eye_closed

\* ---------------------------------------------------------------------- C23

\* The refractory check as the claim words it, on the state before the step.
IntervalElapsed ==
    last_blink_time = None \/ now - last_blink_time >= min_blink_interval_s

\* C23: a frame whose smoothed EAR is strictly above the open threshold raises
\* open_frames by 1 and sets closed_frames to 0.  If eye_closed was true and the
\* new open_frames >= open_frames_required, eye_closed becomes false whatever
\* the refractory check says, and blink_count rises by 1, last_blink_time
\* becomes the frame's timestamp and blink_detected is true exactly when
\* last_blink_time was unset or at least min_blink_interval_s before the
\* timestamp (equality counts); otherwise eye_closed, blink_count and
\* last_blink_time are unchanged and blink_detected is false.
C23_OpenFrameStep ==
    [][FrameStep /\ NewClass = "open" =>
         /\ open_frames' = open_frames + 1
         /\ closed_frames' = 0
         /\ LET guard == eye_closed /\ open_frames' >= open_frames_required IN
            /\ NewFrame.guard = guard
            /\ eye_closed' = (eye_closed /\ ~guard)
            /\ NewFrame.blink_detected = (guard /\ IntervalElapsed)
            /\ IF guard /\ IntervalElapsed
               THEN /\ blink_count' = blink_count + 1
                    /\ last_blink_time' = now
                    /\ ret'.value.timestamp = Isoformat(now)
               ELSE UNCHANGED <<blink_count, last_blink_time>>]_vars

\* A second blink has just been counted exactly min_blink_interval_s after the
\* first.
C23_Witness ==
    /\ blink_count = 2
    /\ frames[Len(frames)].blink_detected
    /\ last_blink_time = now
    /\ \E i \in 1..(Len(frames) - 1) : frames[i].blink_detected
    /\ now = min_blink_interval_s

\* ---------------------------------------------------------------------- C24

\* C24: a frame whose smoothed EAR lies between the thresholds, the thresholds
\* included, leaves closed_frames, open_frames, eye_closed, blink_count and
\* last_blink_time unchanged and reports blink_detected = false; the smoothing
\* window alone changes, by the raw sample appended to it.
C24_DeadZoneStep ==
    [][(/\ FrameStep
        /\ NewFrame.face # NoFace
        /\ EarSum(_ear_history') >= ear_threshold * Len(_ear_history')
        /\ EarSum(_ear_history') <= open_threshold * Len(_ear_history'))
       => /\ UNCHANGED <<closed_frames, open_frames, eye_closed, blink_count,
                         last_blink_time>>
          /\ ~NewFrame.blink_detected
          /\ _ear_history' = LastN(Append(_ear_history, NewFrame.face), smooth_window)
          /\ UNCHANGED <<config, frame_counter, is_running, session_start>>]_vars

\* A frame whose smoothed EAR equals the open threshold has just been processed
\* while the eye was classified closed: it did not start an open streak.
C24_Witness ==
    /\ Len(frames) >= 2
    /\ EarSum(_ear_history) = open_threshold * Len(_ear_history)
    /\ eye_closed
    /\ open_frames = 0
    /\ closed_frames > 0

\* ---------------------------------------------------------------------- C25

\* C25: in every reachable state the smoothing window holds at most
\* smooth_window samples, and it holds exactly the raw EARs of the last
\* min(k, smooth_window) frames with a face, in arrival order, k being the
\* number of such frames since construction.
C25_WindowInvariant ==
    /\ Len(_ear_history) <= smooth_window
    /\ _ear_history = WindowAfter(Len(frames))

\* More frames with a face than the window holds were processed, with a frame
\* without a face among them; the oldest sample has been evicted.
C25_Witness ==
    /\ smooth_window = 2
    /\ Len(RawUpTo(Len(frames))) = 3
    /\ \E i \in FrameIdx : frames[i].face = NoFace
    /\ RawUpTo(Len(frames)) = <<OpenEar, ClosedEar, OpenEar>>
    /\ _ear_history = <<ClosedEar, OpenEar>>

\* ---------------------------------------------------------------------- C26

\* The window a frame of raw EAR x is classified on: the samples before it with
\* x appended, cut to the last smooth_window.
Appended(x) == LastN(Append(_ear_history, x), smooth_window)

\* C26: a frame with a face is classified on the arithmetic mean of the window
\* after its raw EAR has been appended, over the samples the window then holds:
\* it counts as a closed frame exactly when that mean is below the close
\* threshold and as an open frame exactly when it is above the open threshold.
\* The first such frame is classified on its raw EAR alone.
C26_ClassifiedOnWindowMean ==
    [][FrameStep /\ NewFrame.face # NoFace =>
         LET w == Appended(NewFrame.face) IN
         /\ closed_frames' = closed_frames + 1
               <=> EarSum(w) < ear_threshold * Len(w)
         /\ open_frames' = open_frames + 1
               <=> EarSum(w) > open_threshold * Len(w)
         /\ _ear_history = <<>> =>
               /\ Len(w) = 1
               /\ closed_frames' = closed_frames + 1
                     <=> NewFrame.face < ear_threshold
               /\ open_frames' = open_frames + 1
                     <=> NewFrame.face > open_threshold]_vars

\* With a window of three, the first frame was classified open on its raw EAR
\* alone and the second, a closed-eye frame, on the mean of the two (a dead-zone
\* value): the open streak stands.
C26_Witness ==
    /\ smooth_window = DefaultSmoothWindow
    /\ Len(frames) = 2
    /\ frames[1].face = OpenEar
    /\ frames[2].face = ClosedEar
    /\ open_frames = 1
    /\ closed_frames = 0

\* ---------------------------------------------------------------------- C27

\* C27: within a session, two frames that report blink_detected = true are at
\* least min_blink_interval_s apart.  last_blink_time is the timestamp of the
\* last frame of the session that reported a blink: a frame that reports one
\* stamps it, at least min_blink_interval_s after the previous stamp if there
\* is one, and no other step but reset_session moves it, a suppressed
\* open-transition included.
C27_BlinksSpaced ==
    [][/\ FrameStep /\ NewFrame.blink_detected =>
            /\ last_blink_time' = now
            /\ last_blink_time # None =>
                  now - last_blink_time >= min_blink_interval_s
       /\ FrameStep /\ ~NewFrame.blink_detected => UNCHANGED last_blink_time
       /\ ~FrameStep /\ ~ResetStep => UNCHANGED last_blink_time]_vars

\* Two frames of one session reported a blink, the second just now, with the
\* tracker stopped and started in between.
C27_Witness ==
    /\ ~reset_seen
    /\ Cardinality(Detected) = 2
    /\ frames[Len(frames)].blink_detected
    /\ last_blink_time = now
    /\ session_start = now

\* ---------------------------------------------------------------------- C28

\* The frames among lo..hi that were classified c.
Classified(c, lo, hi) == {n \in lo..hi : Class(n) = c}

\* C28: one closure is not counted twice.  The frames that meet the open guard
\* are exactly the steps on which eye_closed turns from true to false, so that
\* eye_closed has turned true between any two of them; and between two such
\* frames i < j at least consecutive_frames frames classified closed and, after
\* them, at least open_frames_required frames classified open are processed,
\* frame j, which completes the second transition, being the last of these.
C28_NoDoubleCount ==
    /\ [](\A i, j \in GuardMet :
            i < j =>
              \E k \in (i + 1)..(j - 1) :
                 /\ Cardinality(Classified("closed", i + 1, k)) >= consecutive_frames
                 /\ Cardinality(Classified("open", k + 1, j)) >= open_frames_required)
    /\ [][(eye_closed /\ ~eye_closed') <=> (FrameStep /\ NewFrame.guard)]_vars

\* Two closed->open transitions have happened, the second suppressed by the
\* refractory period, with a frame without a face in between.
C28_Witness ==
    /\ Cardinality(GuardMet) = 2
    /\ blink_count = 1
    /\ ~eye_closed
    /\ frames[Len(frames)].guard
    /\ \E n \in FrameIdx : frames[n].face = NoFace

\* ---------------------------------------------------------------------- C29

\* The last n frames processed all had a face, with a raw EAR above the open
\* threshold, respectively below the close threshold.
LastRawOpen(n) ==
    /\ Len(frames) >= n
    /\ \A i \in (Len(frames) - n + 1)..Len(frames) :
          frames[i].face # NoFace /\ frames[i].face > open_threshold
LastRawClosed(n) ==
    /\ Len(frames) >= n
    /\ \A i \in (Len(frames) - n + 1)..Len(frames) :
          frames[i].face # NoFace /\ frames[i].face < ear_threshold

\* C29: from any reachable state, after smooth_window + open_frames_required - 1
\* consecutive frames with a face whose raw EAR is above the open threshold the
\* eye is classified open, and after smooth_window + consecutive_frames - 1
\* consecutive frames with a face whose raw EAR is below the close threshold it
\* is classified closed.
C29_BoundedResponse ==
    /\ LastRawOpen(smooth_window + open_frames_required - 1) => ~eye_closed
    /\ LastRawClosed(smooth_window + consecutive_frames - 1) => eye_closed

\* The eye, classified closed, was opened by exactly smooth_window +
\* open_frames_required - 1 open-eye frames, the last of which made the
\* transition: the bound is reached.
C29_Witness ==
    /\ smooth_window = 2
    /\ open_frames_required = DefaultOpenFramesRequired
    /\ Len(frames) = smooth_window + open_frames_required
    /\ frames[1].face = ClosedEar
    /\ LastRawOpen(smooth_window + open_frames_required - 1)
    /\ frames[Len(frames)].guard
    /\ ~eye_closed

\* ---------------------------------------------------------------------- C30

\* C30: in every reachable state closed_frames and open_frames are both at
\* least 0 and at most one of them is not 0.
C30_OneStreak ==
    /\ closed_frames >= 0
    /\ open_frames >= 0
    /\ closed_frames = 0 \/ open_frames = 0

\* An open streak was replaced by a closed streak of two frames, which a stop
\* and a reset_session have left standing.
C30_Witness ==
    /\ frames # <<>>
    /\ frames[1].face = OpenEar
    /\ closed_frames = 2
    /\ open_frames = 0
    /\ reset_seen
    /\ ~is_running

\* ---------------------------------------------------------------------- C31

\* C31: for every call of _process_frame, blink_detected is true in the returned
\* dictionary if and only if the call raised blink_count by 1 (no call changes
\* it otherwise); in that case last_blink_time is the frame's timestamp and
\* eye_closed went from true to false during the call.  The blink_count in the
\* dictionary is the tracker's blink_count after the call.
C31_ResultConsistent ==
    [][FrameStep =>
         /\ ret'.op = "process_frame"
         /\ ret'.value.blink_detected = NewFrame.blink_detected
         /\ ret'.value.blink_detected <=> blink_count' = blink_count + 1
         /\ ~ret'.value.blink_detected => blink_count' = blink_count
         /\ ret'.value.blink_detected =>
               /\ last_blink_time' = now
               /\ ret'.value.timestamp = Isoformat(now)
               /\ ret'.value.last_blink_time = ret'.value.timestamp
               /\ eye_closed /\ ~eye_closed'
         /\ ret'.value.blink_count = blink_count']_vars

\* The second blink of a session has just been reported, after a frame in
\* which no face was found.
C31_Witness ==
    /\ ret.op = "process_frame"
    /\ ret.value.blink_detected
    /\ ret.value.blink_count = 2
    /\ blink_count = 2
    /\ ~eye_closed
    /\ \E i \in FrameIdx : frames[i].face = NoFace

\* ---------------------------------------------------------------------- C32

\* The detector a session would have after frame n had it begun, when the stop
\* flow last ended, with the window empty, both streaks 0 and the eye open.
\* (The clock plays no part in eye_closed.)
RECURSIVE FreshDet(_)
FreshDet(n) ==
    IF n <= stopped_at THEN InitDet
    ELSE IF frames[n].face = NoFace THEN ProcessNoFace(FreshDet(n - 1)).det
    ELSE ProcessFace(FreshDet(n - 1), frames[n].face, 0).det

\* C32: after the stop flow has reset the session (and a following
\* start_tracking()), a frame reports blink_detected = true only if, among the
\* frames processed after the reset and before it, consecutive_frames closed
\* frames have driven an OPEN->CLOSED transition, that is, a detector clean at
\* the reset has had eye_closed true; stale eye_closed, streaks or window
\* samples never produce a blink.
C32_NoStaleBlink ==
    \A i \in Detected :
        (reset_seen /\ i > stopped_at) =>
            \E j \in (stopped_at + 1)..(i - 1) : FreshDet(j).eye_closed

\* ---------------------------------------------------------------------- C34

\* C34: the total_blinks the application's stop flow puts in the session
\* summary equals the detector's blink_count at the moment the tracking thread
\* stops processing frames (when the flow calls stop_tracking()): no blink is
\* counted between the reading of the statistics and stop_tracking() and
\* reset_session().
C34_SummaryComplete ==
    [][ret'.op = "app_stop_tracking" => total_blinks = blink_count]_vars

\* ---------------------------------------------------------------------- C33

\* A step in which a tracking loop ends.
LoopExitStep == ret'.op = "loop_exit"

\* C33: whenever a tracking loop exits, whatever the reason, is_running is
\* false afterwards, and it stays false until the next start_tracking() that
\* returns True; the exit of an earlier loop (one self.thread no longer refers
\* to) never switches off a session that a later start_tracking() has begun.
C33_LoopExitClearsRunning ==
    [][/\ LoopExitStep => ~is_running'
       /\ ~is_running /\ is_running' => StartStep /\ ret'.value = TRUE
       /\ LoopExitStep /\ orphans' < orphans => is_running' = is_running]_vars

\* ---------------------------------------------------------------------- C35

\* C35: a start_tracking() call that does not start a session returns False
\* and leaves the tracker as it was.  When tracking is already running it
\* starts no second thread, does not re-stamp session_start and does not touch
\* blink_count; when the camera cannot be opened, is_running is false
\* afterwards, no tracking thread exists, and session_start, blink_count and
\* last_blink_time keep their values.
C35_FailedStartLeavesState ==
    [][/\ StartStep /\ (is_running \/ ~is_running') => ret'.value = FALSE
       /\ StartStep /\ ret'.value = FALSE =>
            /\ UNCHANGED <<config, detector, frame_counter, session_start>>
            /\ is_running => UNCHANGED <<is_running, threads>>
            /\ ~is_running => ~is_running' /\ AliveLoops' = 0]_vars

====
